---- MODULE Spec2Model ----
(***************************************************************************)
(* A model of lstd: the cache-window policies of cache_manager.py          *)
(* (SinkCache, LongShortTokenCache) and the speculative-decoding loop of   *)
(* speculative_inference.py (SPD.generate).                                *)
(*                                                                         *)
(* A tensor is modelled along its sequence axis only, the axis being the   *)
(* default one for keys and values (k_seq_dim = v_seq_dim = 2, as generate *)
(* and the self-test use it), so k_slice and v_slice are one slice2d.  A   *)
(* key/value buffer is the sequence of its per-position entries, a batch   *)
(* holds one request (the code's verify step compares one-element          *)
(* tensors).  A recurrent state is a sequence of layers, each a pair       *)
(* <<k, v>>.  A distribution over the vocabulary is represented by its     *)
(* argmax, the only thing the code reads from it.                          *)
(***************************************************************************)
EXTENDS Integers, Sequences, FiniteSets, TLC

\* ------------------------------------------------------------------ bounds
MaxInputLen == 2
MaxPastLen == 1
MaxGenLen == 3
MaxSample == 4
NumLayers == 1
MaxCacheLen == 7
MaxUnit == 2
MaxUnits == 3
MaxWindow == 3

\* The token ids of the vocabulary.
Vocab == {0, 1}

\* Python's None where a recurrent state is expected: a state has at least
\* one layer, and the code tests a state for truth ("assert past_key_values"),
\* which the empty list fails like None does.
None == <<>>

Min(a, b) == IF a < b THEN a ELSE b
Max(a, b) == IF a > b THEN a ELSE b

\* ------------------------------------------------------ python sequences
\* An index of a slice, as Python resolves it against a length: a negative
\* index counts from the end, and both ends are clamped into 0..len.
PyIndex(idx, len) == IF idx < 0 THEN Max(idx + len, 0) ELSE Min(idx, len)

\* x[start:end]
PySlice(x, start, end) ==
    SubSeq(x, PyIndex(start, Len(x)) + 1, PyIndex(end, Len(x)))

\* x[-n:] for n >= 1
PyTail(x, n) == PySlice(x, -n, Len(x))

\* x[:end]
PyHead(x, end) == PySlice(x, 0, end)

RECURSIVE SumSeq(_)
SumSeq(s) == IF s = <<>> THEN 0 ELSE Head(s) + SumSeq(Tail(s))

Reverse(s) == [j \in 1..Len(s) |-> s[Len(s) + 1 - j]]

\* ------------------------------------------------------- cache_manager.py
slice2d(x, start, end) == PySlice(x, start, end)

\* The sequence-axis length the policies read: past_key_values[0][0].size(dim)
SeqLen(past_key_values) == Len(past_key_values[1][1])

\* The policy objects.  One record shape serves both classes and "no policy".
NoPolicy ==
    [kind |-> "none", start_size |-> 0, recent_size |-> 0, cache_size |-> 0,
     unit_list |-> <<>>, gap |-> 0, sink |-> 0]

\* SinkCache.__init__
SinkCache(start_size, recent_size) ==
    [kind |-> "sink", start_size |-> start_size, recent_size |-> recent_size,
     cache_size |-> start_size + recent_size,
     unit_list |-> <<>>, gap |-> 0, sink |-> 0]

\* LongShortTokenCache.__init__
LongShortTokenCache(unit_list, gap, sink) ==
    [kind |-> "lst", start_size |-> 0, recent_size |-> 0,
     cache_size |-> SumSeq(unit_list) + sink,
     unit_list |-> unit_list, gap |-> gap, sink |-> sink]

\* SinkCache.__call__, the guard of the identity path.
SinkKeepsAll(self, seq_len) == seq_len <= self.cache_size

\* The recent block taken with an index counted from the end, x[-recent:]:
\* with recent_size = 0 that is the whole buffer.
SinkWindowFromEnd(self, x, seq_len) ==
    slice2d(x, 0, self.start_size)
        \o slice2d(x, -self.recent_size, seq_len)

\* SinkCache.__call__, one buffer of one layer.
SinkWindow(self, x, seq_len) ==
    slice2d(x, 0, self.start_size)
        \o slice2d(x, seq_len - self.recent_size, seq_len)

\* SinkCache.__call__
SinkCacheCall(self, past_key_values) ==
    IF past_key_values = None THEN None
    ELSE LET seq_len == SeqLen(past_key_values) IN
         IF SinkKeepsAll(self, seq_len) THEN past_key_values
         ELSE [l \in 1..Len(past_key_values) |->
                 << SinkWindow(self, past_key_values[l][1], seq_len),
                    SinkWindow(self, past_key_values[l][2], seq_len) >>]

\* The guard of the identity path with a strict comparison: a state of
\* exactly cache_size entries would then be carved into units.
LongShortKeepsAllStrict(self, seq_len) == seq_len < self.cache_size

\* LongShortTokenCache.__call__, the guard of the identity path.
LongShortKeepsAll(self, seq_len) == seq_len <= self.cache_size

\* The loop over reversed(unit_list) with a unit cut one entry short at its
\* front: k_slice(k, seq_end - unit_size + 1, seq_end).
RECURSIVE LongShortUnitsCutShort(_, _, _, _, _, _, _)
LongShortUnitsCutShort(x, units, seq_end, cache_remain, layer, gap, sink) ==
    IF units = <<>> THEN layer
    ELSE IF cache_remain > seq_end - sink
         THEN slice2d(x, sink, seq_end) \o layer
         ELSE LET unit_size == Head(units) IN
              LongShortUnitsCutShort(x, Tail(units),
                                     seq_end - unit_size - gap,
                                     cache_remain - unit_size,
                                     slice2d(x, seq_end - unit_size + 1, seq_end) \o layer,
                                     gap, sink)

\* LongShortTokenCache.__call__, the loop over reversed(unit_list) for one
\* buffer: units is what is left of reversed(self.unit_list), layer the
\* tail retained so far.
RECURSIVE LongShortUnits(_, _, _, _, _, _, _)
LongShortUnits(x, units, seq_end, cache_remain, layer, gap, sink) ==
    IF units = <<>> THEN layer
    ELSE IF cache_remain > seq_end - sink
         THEN slice2d(x, sink, seq_end) \o layer
         ELSE LET unit_size == Head(units) IN
              LongShortUnits(x, Tail(units),
                             seq_end - unit_size - gap,
                             cache_remain - unit_size,
                             slice2d(x, seq_end - unit_size, seq_end) \o layer,
                             gap, sink)

\* The sink block cut with the sink of the construction, whatever sink the
\* call was given.
LongShortWindowOwnSink(self, x, seq_len, gap, sink) ==
    slice2d(x, 0, self.sink)
        \o LongShortUnits(x, Reverse(self.unit_list), seq_len,
                          self.cache_size - sink, <<>>, gap, sink)

\* LongShortTokenCache.__call__, whether the loop over reversed(unit_list)
\* leaves by its break (the terminal branch) rather than by exhaustion.
RECURSIVE LongShortBreaks(_, _, _, _, _)
LongShortBreaks(units, seq_end, cache_remain, gap, sink) ==
    IF units = <<>> THEN FALSE
    ELSE IF cache_remain > seq_end - sink THEN TRUE
    ELSE LET unit_size == Head(units) IN
         LongShortBreaks(Tail(units), seq_end - unit_size - gap,
                         cache_remain - unit_size, gap, sink)

\* LongShortTokenCache.__call__, one buffer of one layer: the units, then the
\* sink block in front.
LongShortWindow(self, x, seq_len, gap, sink) ==
    slice2d(x, 0, sink)
        \o LongShortUnits(x, Reverse(self.unit_list), seq_len,
                          self.cache_size - sink, <<>>, gap, sink)

\* LongShortTokenCache.__call__ with gap and sink as passed: an Optional[int]
\* is a sequence of at most one integer, <<>> being None.
LongShortTokenCacheCall(self, past_key_values, gap_arg, sink_arg) ==
    IF past_key_values = None THEN None
    ELSE LET seq_len == SeqLen(past_key_values)
             gap == IF gap_arg = <<>> THEN self.gap ELSE gap_arg[1]
             sink == IF sink_arg = <<>> THEN self.sink ELSE sink_arg[1]
         IN  IF LongShortKeepsAll(self, seq_len) THEN past_key_values
             ELSE [l \in 1..Len(past_key_values) |->
                     << LongShortWindow(self, past_key_values[l][1], seq_len, gap, sink),
                        LongShortWindow(self, past_key_values[l][2], seq_len, gap, sink) >>]

\* The policy not applied: the state goes through as it is.
CacheManagerSkipped(self, past_key_values) == past_key_values

\* self.cache_manager(past_key_values), as SPD.generate calls it.
CacheManagerCall(self, past_key_values) ==
    IF self.kind = "sink" THEN SinkCacheCall(self, past_key_values)
    ELSE LongShortTokenCacheCall(self, past_key_values, <<>>, <<>>)

\* ------------------------------------------------- speculative_inference.py
\* The predictor is an external collaborator, a deterministic function of the
\* entries of its cache followed by the tokens it is given.  A cache entry is
\* represented by the token it was computed from.  The predictors range over
\* a small family, each sensitive to every entry of its context: the argmax
\* after a context is the parity of the context's tokens, plus for model 1
\* the parity of the context's length.
Models == {0, 1}

Predict(m, ctx) == (SumSeq(ctx) + m * Len(ctx)) % 2

\* The entries a predictor reads from a state (None: no entry).
Entries(past) == IF past = None THEN <<>> ELSE past[1][1]

\* model(input_ids=ids, past_key_values=past, use_cache=True): the argmax of
\* the logits at every input position, and the state extended (in every
\* layer, for K and for V) by one entry per input token.
Forward(m, past, ids) ==
    [logits |-> [j \in 1..Len(ids) |->
                    Predict(m, Entries(past) \o SubSeq(ids, 1, j))],
     past_key_values |->
        [l \in 1..(IF past = None THEN NumLayers ELSE Len(past)) |->
            IF past = None THEN <<ids, ids>>
            ELSE <<past[l][1] \o ids, past[l][2] \o ids>>]]

VARIABLES
    model,                  \* self.draft_model = self.target_model = model
    cache_manager,          \* self.cache_manager (NoPolicy: None)
    call_input_ids,         \* the caller's input_ids
    call_past_key_values,   \* the caller's past_key_values
    max_gen_len, max_sample,
    input_ids, input_seqlen, past_key_values,
    generated_ids, draft_next_ids, target_next_ids,
    generated_len, cache_size, stable_len,
    draft_generated_prob, draft_past_key_values, i,
    target_generated_ids, accept_len,
    decode_time,            \* len(decode_time): the outer iterations completed
    pc,
    arg_past_key_values,    \* a policy call's argument ...
    arg_gap, arg_sink,      \* ... its gap and sink (<<>>: not passed)
    new_past_key_values,    \* ... and what it returned
    call_pc

gen_vars == <<model, call_input_ids, call_past_key_values,
              max_gen_len, max_sample,
              input_ids, input_seqlen, past_key_values,
              generated_ids, draft_next_ids, target_next_ids,
              generated_len, cache_size, stable_len,
              draft_generated_prob, draft_past_key_values, i,
              target_generated_ids, accept_len, decode_time, pc>>

call_vars == <<arg_past_key_values, arg_gap, arg_sink, new_past_key_values, call_pc>>

vars == <<gen_vars, cache_manager, call_vars>>

\* The sequences over S of length lo..hi.
SeqsOf(S, lo, hi) == UNION {[1..n -> S] : n \in lo..hi}

\* A recurrent state whose every buffer holds the entries of tokens.
StateOf(tokens) == [l \in 1..NumLayers |-> <<tokens, tokens>>]

\* The policies a session is run with: none, two SinkCaches (one without
\* sink tokens), a LongShortTokenCache.
SessionPolicies ==
    {NoPolicy, SinkCache(0, 1), SinkCache(1, 1),
     LongShortTokenCache(<<1, 1>>, 1, 1)}

\* SPD.__init__ and the arguments of one call of generate.
Init ==
    /\ model \in Models
    /\ cache_manager \in SessionPolicies
    /\ call_input_ids \in SeqsOf(Vocab, 1, MaxInputLen)
    /\ call_past_key_values \in
          {None} \cup {StateOf(t) : t \in SeqsOf(Vocab, 1, MaxPastLen)}
    /\ max_gen_len \in 0..MaxGenLen
    /\ max_sample \in 1..MaxSample
    /\ input_ids = call_input_ids
    /\ past_key_values = call_past_key_values
    /\ input_seqlen = 0
    /\ generated_ids = <<>>
    /\ draft_next_ids = <<>>
    /\ target_next_ids = <<>>
    /\ generated_len = 0
    /\ cache_size = 0
    /\ stable_len = 0
    /\ draft_generated_prob = <<>>
    /\ draft_past_key_values = None
    /\ i = 0
    /\ target_generated_ids = <<>>
    /\ accept_len = 0
    /\ decode_time = 0
    /\ pc = "start"
    /\ arg_past_key_values = None
    /\ arg_gap = <<>>
    /\ arg_sink = <<>>
    /\ new_past_key_values = None
    /\ call_pc = "idle"

\* generate, the prefill branch: past_key_values is None.
Prefill ==
    /\ pc = "start"
    /\ past_key_values = None
    /\ LET outputs == Forward(model, None, input_ids)
           pred_token_idx == <<outputs.logits[Len(outputs.logits)]>>
       IN  /\ input_seqlen' = Len(input_ids)
           /\ past_key_values' = outputs.past_key_values
           /\ generated_ids' = pred_token_idx
           /\ input_ids' = pred_token_idx
           /\ draft_next_ids' = pred_token_idx
           /\ target_next_ids' = pred_token_idx
    /\ generated_len' = 0
    /\ cache_size' = 0
    /\ pc' = "while"
    /\ UNCHANGED <<model, cache_manager, call_input_ids, call_past_key_values,
                   max_gen_len, max_sample, stable_len, draft_generated_prob,
                   draft_past_key_values, i, target_generated_ids, accept_len,
                   decode_time, call_vars>>

\* A start from a supplied state that hands the draft loop only the last
\* input token: draft_next_ids = input_ids[:, -1:].
ResumeLastToken ==
    /\ pc = "start"
    /\ past_key_values # None
    /\ input_seqlen' = Len(input_ids)
    /\ generated_ids' = <<>>
    /\ draft_next_ids' = PyTail(input_ids, 1)
    /\ target_next_ids' = input_ids
    /\ generated_len' = 0
    /\ cache_size' = 0
    /\ pc' = "while"
    /\ UNCHANGED <<model, cache_manager, call_input_ids, call_past_key_values,
                   max_gen_len, max_sample, input_ids, past_key_values,
                   stable_len, draft_generated_prob,
                   draft_past_key_values, i, target_generated_ids, accept_len,
                   decode_time, call_vars>>

\* generate, started from a supplied state: nothing is generated yet.
Resume ==
    /\ pc = "start"
    /\ past_key_values # None
    /\ input_seqlen' = Len(input_ids)
    /\ generated_ids' = <<>>
    /\ draft_next_ids' = input_ids
    /\ target_next_ids' = input_ids
    /\ generated_len' = 0
    /\ cache_size' = 0
    /\ pc' = "while"
    /\ UNCHANGED <<model, cache_manager, call_input_ids, call_past_key_values,
                   max_gen_len, max_sample, input_ids, past_key_values,
                   stable_len, draft_generated_prob,
                   draft_past_key_values, i, target_generated_ids, accept_len,
                   decode_time, call_vars>>

\* while generated_len <= max_gen_len: one iteration more at the boundary.
LoopGuardInclusive(len, max_len) == len <= max_len

\* while generated_len < max_gen_len
LoopGuard(len, max_len) == len < max_len

\* The head of an outer iteration: the stable length and the draft state.
BeginIteration ==
    /\ pc = "while"
    /\ LoopGuard(generated_len, max_gen_len)
    /\ stable_len' = Len(generated_ids)
    /\ draft_generated_prob' = <<>>
    /\ draft_past_key_values' =
          IF cache_manager # NoPolicy
          THEN CacheManagerCall(cache_manager, past_key_values)
          ELSE past_key_values
    /\ i' = 0
    /\ pc' = "draft"
    /\ UNCHANGED <<model, cache_manager, call_input_ids, call_past_key_values,
                   max_gen_len, max_sample, input_ids, input_seqlen,
                   past_key_values, generated_ids, draft_next_ids,
                   target_next_ids, generated_len, cache_size,
                   target_generated_ids, accept_len, decode_time, call_vars>>

\* One pass of "for i in range(max_sample)": one draft call.
DraftStep ==
    /\ pc = "draft"
    /\ i < max_sample
    /\ LET draft_outputs == Forward(model, draft_past_key_values, draft_next_ids)
           kept == IF cache_manager # NoPolicy
                   THEN CacheManagerCall(cache_manager, draft_outputs.past_key_values)
                   ELSE draft_outputs.past_key_values
           draft_token_prob == draft_outputs.logits[Len(draft_outputs.logits)]
       IN  /\ draft_past_key_values' = kept
           /\ cache_size' = SeqLen(kept)
           /\ draft_generated_prob' = Append(draft_generated_prob, draft_token_prob)
           /\ draft_next_ids' = <<draft_token_prob>>
           /\ generated_ids' = Append(generated_ids, draft_token_prob)
    /\ i' = i + 1
    /\ pc' = IF i + 1 < max_sample THEN "draft" ELSE "verify"
    /\ UNCHANGED <<model, cache_manager, call_input_ids, call_past_key_values,
                   max_gen_len, max_sample, input_ids, input_seqlen,
                   past_key_values, target_next_ids, generated_len, stable_len,
                   target_generated_ids, accept_len, decode_time, call_vars>>

\* target_outputs.logits[:, -(max_sample+1):, :] with one position too few.
TargetLogitsShort(logits, n) == PyTail(logits, n)

\* target_outputs.logits[:, -(max_sample+1):, :]
TargetLogits(logits, n) == PyTail(logits, n + 1)

\* The target call over the last confirmed token and the proposals, and the
\* assertion on the number of distributions.
TargetVerify ==
    /\ pc = "verify"
    /\ LET next_ids == target_next_ids \o PyTail(generated_ids, max_sample)
           target_outputs == Forward(model, past_key_values, next_ids)
           target_generated_prob == TargetLogits(target_outputs.logits, max_sample)
       IN  /\ target_next_ids' = next_ids
           /\ past_key_values' = target_outputs.past_key_values
           /\ target_generated_ids' = target_generated_prob
           /\ pc' = IF Len(target_generated_prob) = Len(draft_generated_prob) + 1
                    THEN "accept" ELSE "AssertionError"
    /\ UNCHANGED <<model, cache_manager, call_input_ids, call_past_key_values,
                   max_gen_len, max_sample, input_ids, input_seqlen,
                   generated_ids, draft_next_ids, generated_len, cache_size,
                   stable_len, draft_generated_prob, draft_past_key_values, i,
                   accept_len, decode_time, call_vars>>

\* The verify loop without its break: every agreeing position is counted.
RECURSIVE VerifyLoopNoBreak(_, _, _, _, _)
VerifyLoopNoBreak(target, draft, n, pos, acc) ==
    IF pos >= n THEN acc
    ELSE VerifyLoopNoBreak(target, draft, n, pos + 1,
                           IF target[pos + 1] = draft[pos + 1] THEN acc + 1 ELSE acc)

\* "for i in range(max_sample)": accept while the argmaxes agree, break at
\* the first that do not.  pos is the loop's i, acc its accept_len.
RECURSIVE VerifyLoop(_, _, _, _, _)
VerifyLoop(target, draft, n, pos, acc) ==
    IF pos >= n THEN acc
    ELSE IF target[pos + 1] = draft[pos + 1]
         THEN VerifyLoop(target, draft, n, pos + 1, acc + 1)
         ELSE acc

\* generated_ids[:, :accept_len]: the cut forgets the stable length.
TruncateFromZero(ids, stable, accepted) == PyHead(ids, accepted)

\* generated_ids[:, :stable_len + accept_len]
Truncate(ids, stable, accepted) == PyHead(ids, stable + accepted)

\* target_generated_ids[:, -1]: the last position, whatever was accepted.
LastTargetToken(target, accepted) == target[Len(target)]

\* target_generated_ids[:, accept_len]
TargetLastAccept(target, accepted) == target[accepted + 1]

\* The verify loop, the cut of the pending tokens and the bonus token.
AcceptReject ==
    /\ pc = "accept"
    /\ LET accepted == VerifyLoop(target_generated_ids, draft_generated_prob,
                                  max_sample, 0, 0)
       IN  /\ accept_len' = accepted
           /\ generated_ids' =
                 Append(Truncate(generated_ids, stable_len, accepted),
                        TargetLastAccept(target_generated_ids, accepted))
    /\ pc' = "rollback"
    /\ UNCHANGED <<model, cache_manager, call_input_ids, call_past_key_values,
                   max_gen_len, max_sample, input_ids, input_seqlen,
                   past_key_values, draft_next_ids, target_next_ids,
                   generated_len, cache_size, stable_len, draft_generated_prob,
                   draft_past_key_values, i, target_generated_ids,
                   decode_time, call_vars>>

\* end_pos = input_seqlen + generated_ids.shape[1]
EndPos(seqlen, ids) == seqlen + Len(ids)

\* The rollback left out: the state as the target call returned it.
Untrimmed(past, end_pos) == past

\* The state cut to end_pos in every layer, for K and for V.
Trimmed(past, end_pos) ==
    [l \in 1..Len(past) |-> <<PyHead(past[l][1], end_pos), PyHead(past[l][2], end_pos)>>]

\* generated_len += accept_len, without the bonus token.
AdvanceNoBonus(len, accepted) == len + accepted

\* generated_len += accept_len + 1
Advance(len, accepted) == len + accepted + 1

\* The rollback of the target state and the update for the next iteration.
Rollback ==
    /\ pc = "rollback"
    /\ past_key_values' = Trimmed(past_key_values, EndPos(input_seqlen, generated_ids))
    /\ target_next_ids' = <<generated_ids[Len(generated_ids)]>>
    /\ draft_next_ids' = <<generated_ids[Len(generated_ids)]>>
    /\ generated_len' = Advance(generated_len, accept_len)
    /\ decode_time' = decode_time + 1
    /\ pc' = "while"
    /\ UNCHANGED <<model, cache_manager, call_input_ids, call_past_key_values,
                   max_gen_len, max_sample, input_ids, input_seqlen,
                   generated_ids, cache_size, stable_len, draft_generated_prob,
                   draft_past_key_values, i, target_generated_ids, accept_len,
                   call_vars>>

\* return generated_ids, prefill_time, decode_time
Return ==
    /\ pc = "while"
    /\ ~LoopGuard(generated_len, max_gen_len)
    /\ pc' = "done"
    /\ UNCHANGED <<model, cache_manager, call_input_ids, call_past_key_values,
                   max_gen_len, max_sample, input_ids, input_seqlen,
                   past_key_values, generated_ids, draft_next_ids,
                   target_next_ids, generated_len, cache_size, stable_len,
                   draft_generated_prob, draft_past_key_values, i,
                   target_generated_ids, accept_len, decode_time, call_vars>>

Next ==
    \/ Prefill
    \/ Resume
    \/ BeginIteration
    \/ DraftStep
    \/ TargetVerify
    \/ AcceptReject
    \/ Rollback
    \/ Return

Spec == Init /\ [][Next]_vars

\* generate is one sequential call: a step that can be taken is taken.
FairSpec == Spec /\ WF_vars(Next)

\* --------------------------------------------------- a predictor that fails
\* A call of the predictor may raise (device or resource exhaustion).
\* generate has no try/except: the exception leaves it at the call, and the
\* locals are as the last completed statement left them.
PrefillCallFails ==
    /\ pc = "start"
    /\ past_key_values = None
    /\ pc' = "PredictorError"
    /\ UNCHANGED <<model, cache_manager, call_input_ids, call_past_key_values,
                   max_gen_len, max_sample, input_ids, input_seqlen,
                   past_key_values, generated_ids, draft_next_ids,
                   target_next_ids, generated_len, cache_size, stable_len,
                   draft_generated_prob, draft_past_key_values, i,
                   target_generated_ids, accept_len, decode_time, call_vars>>

\* self.draft_model(...) raises in a pass of the draft loop.
DraftCallFails ==
    /\ pc = "draft"
    /\ i < max_sample
    /\ pc' = "PredictorError"
    /\ UNCHANGED <<model, cache_manager, call_input_ids, call_past_key_values,
                   max_gen_len, max_sample, input_ids, input_seqlen,
                   past_key_values, generated_ids, draft_next_ids,
                   target_next_ids, generated_len, cache_size, stable_len,
                   draft_generated_prob, draft_past_key_values, i,
                   target_generated_ids, accept_len, decode_time, call_vars>>

\* self.target_model(...) raises: target_next_ids is already extended.
TargetCallFails ==
    /\ pc = "verify"
    /\ target_next_ids' = target_next_ids \o PyTail(generated_ids, max_sample)
    /\ pc' = "PredictorError"
    /\ UNCHANGED <<model, cache_manager, call_input_ids, call_past_key_values,
                   max_gen_len, max_sample, input_ids, input_seqlen,
                   past_key_values, generated_ids, draft_next_ids,
                   generated_len, cache_size, stable_len,
                   draft_generated_prob, draft_past_key_values, i,
                   target_generated_ids, accept_len, decode_time, call_vars>>

NextFail ==
    \/ Next
    \/ PrefillCallFails
    \/ DraftCallFails
    \/ TargetCallFails

SpecFail == Init /\ [][NextFail]_vars

\* ------------------------------------------------ the policies on their own
\* The self-test of cache_manager.py: unit_list, gap, sink and cache_len.
TestUnit == 1000000
TestGap == 4
TestSink == 4
TestCacheLen == 20

TestPolicy == LongShortTokenCache(<<TestUnit>>, TestGap, TestSink)

\* The policies applied on their own: every SinkCache and every
\* LongShortTokenCache within the bounds, a SinkCache of 4 sink and 8 recent
\* entries, and the self-test's policy.
CallPolicies ==
    {SinkCache(a, b) : a \in 0..MaxWindow, b \in 0..MaxWindow}
        \cup {SinkCache(4, 8)}
        \cup {LongShortTokenCache(u, g, k) :
                u \in SeqsOf(1..MaxUnit, 0, MaxUnits), g \in 0..MaxWindow, k \in 0..MaxWindow}
        \cup {TestPolicy}

\* A state of len positions, as the self-test builds it (an arange per
\* buffer); the entry at a position also names its layer and its buffer.
ArangeState(len) ==
    [l \in 1..NumLayers |->
        << [p \in 1..len |-> <<l, "k", p - 1>>], [p \in 1..len |-> <<l, "v", p - 1>>] >>]

\* No session of generate is running.
NoSession ==
    /\ model = 0
    /\ call_input_ids = <<>>
    /\ call_past_key_values = None
    /\ max_gen_len = 0
    /\ max_sample = 1
    /\ input_ids = <<>>
    /\ past_key_values = None
    /\ input_seqlen = 0
    /\ generated_ids = <<>>
    /\ draft_next_ids = <<>>
    /\ target_next_ids = <<>>
    /\ generated_len = 0
    /\ cache_size = 0
    /\ stable_len = 0
    /\ draft_generated_prob = <<>>
    /\ draft_past_key_values = None
    /\ i = 0
    /\ target_generated_ids = <<>>
    /\ accept_len = 0
    /\ decode_time = 0
    /\ pc = "idle"

InitCall ==
    /\ cache_manager \in CallPolicies
    /\ arg_past_key_values \in
          {None} \cup {ArangeState(len) : len \in (0..MaxCacheLen) \cup {TestCacheLen}}
    /\ arg_gap = <<>>
    /\ arg_sink = <<>>
    /\ new_past_key_values = None
    /\ call_pc = "ready"
    /\ NoSession

\* cache(past_key_values)
PolicyCall ==
    /\ call_pc = "ready"
    /\ new_past_key_values' = CacheManagerCall(cache_manager, arg_past_key_values)
    /\ call_pc' = "returned"
    /\ UNCHANGED <<gen_vars, cache_manager, arg_past_key_values, arg_gap, arg_sink>>

\* cache(past_key_values, gap=g, sink=k) of a LongShortTokenCache
LongShortCallWith ==
    /\ call_pc = "ready"
    /\ cache_manager.kind = "lst"
    /\ \E g \in 0..MaxWindow, k \in 0..MaxWindow :
          /\ arg_gap' = <<g>>
          /\ arg_sink' = <<k>>
          /\ new_past_key_values' =
                LongShortTokenCacheCall(cache_manager, arg_past_key_values, <<g>>, <<k>>)
    /\ call_pc' = "returned"
    /\ UNCHANGED <<gen_vars, cache_manager, arg_past_key_values>>

NextCall ==
    \/ PolicyCall
    \/ LongShortCallWith

SpecCall == InitCall /\ [][NextCall]_vars

\* ------------------------------------------ the construction of a policy
\* The sizes a constructor is called with: __init__ stores what it is given,
\* so a negative size is among them.
CtorSizes == (-1)..MaxWindow

InitCtor ==
    /\ cache_manager = NoPolicy
    /\ arg_past_key_values \in
          {None} \cup {ArangeState(len) : len \in 0..MaxCacheLen}
    /\ arg_gap = <<>>
    /\ arg_sink = <<>>
    /\ new_past_key_values = None
    /\ call_pc = "new"
    /\ NoSession

\* cache = SinkCache(start_size, recent_size)
NewSinkCache ==
    /\ call_pc = "new"
    /\ \E start_size \in CtorSizes, recent_size \in CtorSizes :
          cache_manager' = SinkCache(start_size, recent_size)
    /\ call_pc' = "ready"
    /\ UNCHANGED <<gen_vars, arg_past_key_values, arg_gap, arg_sink,
                   new_past_key_values>>

\* cache = LongShortTokenCache(unit_list, gap, sink)
NewLongShortTokenCache ==
    /\ call_pc = "new"
    /\ \E unit_list \in SeqsOf(1..MaxUnit, 0, MaxUnits),
          gap \in 0..MaxWindow, sink \in CtorSizes :
          cache_manager' = LongShortTokenCache(unit_list, gap, sink)
    /\ call_pc' = "ready"
    /\ UNCHANGED <<gen_vars, arg_past_key_values, arg_gap, arg_sink,
                   new_past_key_values>>

NextCtor ==
    \/ NewSinkCache
    \/ NewLongShortTokenCache
    \/ PolicyCall

SpecCtor == InitCtor /\ [][NextCtor]_vars

\* =================================================================== claims
\* The tokens a session's confirmed tokens follow: the entries of the
\* supplied state (none in a prefill start), then the caller's input.
Prompt == Entries(call_past_key_values) \o call_input_ids

\* 1 when the session started with a prefill (its token is in generated_ids
\* before the first iteration), 0 when it started from a supplied state.
PrefillTokens == IF call_past_key_values = None THEN 1 ELSE 0

IsPrefix(s, t) == Len(s) <= Len(t) /\ SubSeq(t, 1, Len(s)) = s

\* C1: every token generate returns is the target predictor's greedy argmax
\* after the prompt and the tokens returned before it.
C1_Lossless ==
    pc = "done" =>
        \A k \in 1..Len(generated_ids) :
            generated_ids[k] = Predict(model, Prompt \o SubSeq(generated_ids, 1, k - 1))

\* C2: after Rollback the target state holds, in every buffer, entries only
\* of the prompt and of the confirmed tokens fed so far, in order: it is a
\* prefix of the prompt followed by the confirmed tokens but the last.
C2_RollbackClean ==
    (pc = "while" /\ decode_time >= 1) =>
        \A l \in 1..Len(past_key_values) : \A b \in 1..2 :
            IsPrefix(past_key_values[l][b],
                     Prompt \o SubSeq(generated_ids, 1, Len(generated_ids) - 1))

AllAccepted == generated_len = decode_time * (max_sample + 1)

Agree(p) == target_generated_ids[p] = draft_generated_prob[p]

\* C4: accept_len is the length of the longest prefix of the draft positions
\* at which target and draft agree; a position after the first disagreement
\* is not counted, whether it agrees or not.
C4_PrefixStop ==
    pc = "rollback" =>
        /\ accept_len \in 0..max_sample
        /\ \A p \in 1..accept_len : Agree(p)
        /\ accept_len < max_sample => ~Agree(accept_len + 1)

\* C4's case: a position after the first disagreement agrees, and is not
\* counted.
C4_Witness ==
    /\ pc = "rollback"
    /\ accept_len < max_sample
    /\ \E p \in (accept_len + 2)..max_sample : Agree(p)

\* C5: an outer iteration extends the confirmed tokens by accept_len + 1:
\* the first accept_len proposals in order, then the target's argmax at
\* position accept_len; generated_len counts them.
C5_IterationExtends ==
    /\ pc = "rollback" =>
          /\ Len(generated_ids) = stable_len + accept_len + 1
          /\ \A p \in 1..accept_len :
                generated_ids[stable_len + p] = draft_generated_prob[p]
          /\ generated_ids[stable_len + accept_len + 1]
                = target_generated_ids[accept_len + 1]
    /\ pc = "while" => Len(generated_ids) = generated_len + PrefillTokens

\* C5's scenario: max_sample = 4, the first disagreement at position 2.
C5_Witness ==
    /\ pc = "rollback"
    /\ max_sample = 4
    /\ accept_len = 2
    /\ Len(generated_ids) = stable_len + 3

\* C6: a session ends, after at most max_gen_len outer iterations.
C6_Terminates ==
    /\ [](decode_time <= max_gen_len)
    /\ <>(pc = "done")

\* C6's case: nothing is accepted in any iteration, and the session ends
\* after max_gen_len of them.
C6_Witness ==
    /\ pc = "done"
    /\ max_gen_len >= 2
    /\ decode_time = max_gen_len
    /\ accept_len = 0

\* C7: the confirmed tokens only grow: no step changes or removes a token
\* below the stable length of the iteration, the stable length never
\* decreases, and AcceptReject leaves more tokens than the stable length.
C7_Monotone ==
    [][/\ Len(generated_ids') >= stable_len
       /\ SubSeq(generated_ids', 1, stable_len) = SubSeq(generated_ids, 1, stable_len)
       /\ stable_len' >= stable_len
       /\ pc' = "rollback" => Len(generated_ids') > stable_len
       /\ (pc' = "draft" /\ pc = "while" /\ decode_time >= 1) => stable_len' > stable_len
      ]_vars

\* C7's case: every proposal of an iteration is cut off again, down to a
\* stable length of confirmed tokens.
C7_Witness ==
    /\ pc = "rollback"
    /\ accept_len = 0
    /\ stable_len >= 2
    /\ decode_time >= 1

\* C8: TargetVerify yields max_sample + 1 distributions for max_sample
\* proposals, and the assertion on the count never stops a session.
C8_DistributionCount ==
    /\ pc # "AssertionError"
    /\ pc \in {"accept", "rollback"} =>
          /\ Len(draft_generated_prob) = max_sample
          /\ Len(target_generated_ids) = max_sample + 1

\* C8's case: the first verify of a session started from a supplied state
\* with several input tokens, where the target call returns more positions
\* than are kept.
C8_Witness ==
    /\ pc = "accept"
    /\ call_past_key_values # None
    /\ decode_time = 0
    /\ Len(target_next_ids) > max_sample + 1

\* C9 as claimed: the returned sequence holds max_gen_len new tokens.
C9_ReturnsMaxGenLen ==
    pc = "done" => Len(generated_ids) = max_gen_len

\* C9, amended: the returned sequence holds generated_len new tokens, at
\* least max_gen_len and at most max_gen_len + max_sample, and one more (the
\* prefill token) in a prefill start.
C9_ReturnedLength ==
    pc = "done" =>
        /\ Len(generated_ids) = generated_len + PrefillTokens
        /\ max_gen_len <= generated_len
        /\ generated_len <= max_gen_len + max_sample

\* C9's case: the last iteration runs past max_gen_len.
C9_Witness ==
    /\ pc = "done"
    /\ max_gen_len >= 1
    /\ generated_len = max_gen_len + max_sample

\* C10: a policy applied to a state no longer than its cache_size returns
\* the state as it is.
C10_Identity ==
    (call_pc = "returned" /\ arg_past_key_values # None
        /\ SeqLen(arg_past_key_values) <= cache_manager.cache_size) =>
            new_past_key_values = arg_past_key_values

\* C10's scenario: the self-test's policy on its 20-token state.
C10_Witness ==
    /\ call_pc = "returned"
    /\ cache_manager = TestPolicy
    /\ arg_past_key_values = ArangeState(TestCacheLen)
    /\ new_past_key_values = arg_past_key_values

\* A policy call that returned a window: the policy is of the given kind and
\* the state was longer than cache_size.
Windowed(kind) ==
    /\ call_pc = "returned"
    /\ cache_manager.kind = kind
    /\ arg_past_key_values # None
    /\ SeqLen(arg_past_key_values) > cache_manager.cache_size

\* C11: a SinkCache applied to a state longer than start_size + recent_size
\* returns, in every layer and for K and V, exactly start_size + recent_size
\* entries: the first start_size of the input, then its last recent_size, in
\* order; also when start_size or recent_size is 0.
C11_SinkWindow ==
    Windowed("sink") =>
        /\ Len(new_past_key_values) = Len(arg_past_key_values)
        /\ \A l \in 1..Len(arg_past_key_values), b \in 1..2 :
              LET x == arg_past_key_values[l][b]
                  y == new_past_key_values[l][b]
                  start == cache_manager.start_size
                  recent == cache_manager.recent_size
              IN  /\ Len(y) = start + recent
                  /\ \A p \in 1..start : y[p] = x[p]
                  /\ \A p \in 1..recent : y[start + p] = x[Len(x) - recent + p]

\* 4 sink and 8 recent entries of a 20-entry state: positions 0..3, 12..19.
C11_Witness ==
    /\ Windowed("sink")
    /\ cache_manager = SinkCache(4, 8)
    /\ SeqLen(arg_past_key_values) = TestCacheLen
    /\ new_past_key_values[1][1] =
          [p \in 1..12 |-> <<1, "k", IF p <= 4 THEN p - 1 ELSE p + 7>>]

\* A LongShortTokenCache called with the gap and sink of its construction.
LongShortDefaultCall ==
    /\ call_pc = "returned"
    /\ cache_manager.kind = "lst"
    /\ arg_past_key_values # None
    /\ arg_gap = <<>>
    /\ arg_sink = <<>>

\* C12: whatever the positive unit sizes, the gap >= 0 and the sink >= 0 of
\* its construction and whatever the input length, a LongShortTokenCache
\* returns no buffer longer than cache_size = sum(unit_list) + sink.
C12_LengthBound ==
    LongShortDefaultCall =>
        \A l \in 1..Len(new_past_key_values), b \in 1..2 :
            Len(new_past_key_values[l][b]) <= cache_manager.cache_size

\* The sink of a call: the one passed, else the one of the construction.
CallSink == IF arg_sink = <<>> THEN cache_manager.sink ELSE arg_sink[1]

C14_RejectsNegative ==
    call_pc \in {"ready", "returned"} =>
        /\ cache_manager.start_size >= 0
        /\ cache_manager.recent_size >= 0
        /\ cache_manager.sink >= 0

\* C15: a predictor call that fails ends the session: nothing follows the
\* error (no retry, no further call), and the count of generated tokens the
\* session has reported (generated_len, what the progress bar shows) is the
\* count of the tokens confirmed by the completed iterations; the proposals
\* of the interrupted iteration are not in it.
C15_FailureFatal ==
    [][/\ pc # "PredictorError"
       /\ pc' = "PredictorError" =>
             /\ generated_len' = generated_len
             /\ generated_len' =
                   IF pc = "start" THEN 0 ELSE stable_len - PrefillTokens]_vars

\* The target call of a second iteration fails with proposals pending.
C15_Witness ==
    /\ pc = "PredictorError"
    /\ decode_time >= 1
    /\ i = max_sample
    /\ Len(generated_ids) > stable_len
    /\ generated_len = stable_len - PrefillTokens
    /\ generated_len >= 2

\* The scan of unit_list as C16 words it: the whole remaining span
\* [sink, seq_end) is retained as soon as its length does not exceed the
\* remaining budget, the two being equal included.
RECURSIVE UnitsUntilSpanFits(_, _, _, _, _, _, _)
UnitsUntilSpanFits(x, units, seq_end, cache_remain, layer, gap, sink) ==
    IF units = <<>> THEN layer
    ELSE IF seq_end - sink <= cache_remain
         THEN slice2d(x, sink, seq_end) \o layer
         ELSE LET unit_size == Head(units) IN
              UnitsUntilSpanFits(x, Tail(units),
                                 seq_end - unit_size - gap,
                                 cache_remain - unit_size,
                                 slice2d(x, seq_end - unit_size, seq_end) \o layer,
                                 gap, sink)

\* C16: scanning unit_list from its last element backward, the carving of
\* units stops, and the whole remaining span [sink, seq_end) is retained, as
\* soon as seq_end - sink <= cache_size - sink - (units carved so far),
\* equality included.
C16_TerminalInclusive ==
    (Windowed("lst") /\ LongShortDefaultCall) =>
        \A l \in 1..Len(arg_past_key_values), b \in 1..2 :
            LET x == arg_past_key_values[l][b] IN
            new_past_key_values[l][b] =
                slice2d(x, 0, cache_manager.sink)
                    \o UnitsUntilSpanFits(x, Reverse(cache_manager.unit_list), Len(x),
                                          cache_manager.cache_size - cache_manager.sink,
                                          <<>>, cache_manager.gap, cache_manager.sink)

\* The gap of a call: the one passed, else the one of the construction.
CallGap == IF arg_gap = <<>> THEN cache_manager.gap ELSE arg_gap[1]

\* A LongShortTokenCache windowed a state and ran out of units: the
\* terminal branch was never taken.
UnitsExhausted ==
    /\ Windowed("lst")
    /\ ~LongShortBreaks(Reverse(cache_manager.unit_list),
                        SeqLen(arg_past_key_values),
                        cache_manager.cache_size - CallSink, CallGap, CallSink)

MostRecent ==
    IF generated_ids = <<>> THEN call_input_ids[Len(call_input_ids)]
    ELSE generated_ids[Len(generated_ids)]

\* C18 as stated: every draft call, the first call of a session started from
\* a supplied state included, consumes exactly one token, the most recent.
C18_OneTokenPerCall ==
    pc = "draft" => draft_next_ids = <<MostRecent>>

\* C18, amended: every draft call consumes exactly the most recent token,
\* except the first draft call of a session started from a supplied state,
\* which consumes the whole of the caller's input_ids.
C18_DraftInput ==
    pc = "draft" =>
        IF call_past_key_values # None /\ decode_time = 0 /\ i = 0
        THEN draft_next_ids = call_input_ids
        ELSE draft_next_ids = <<MostRecent>>

\* The first draft call after a start from a supplied state, the caller's
\* input being two tokens long.
C18_Witness ==
    /\ pc = "draft"
    /\ call_past_key_values # None
    /\ decode_time = 0
    /\ i = 0
    /\ Len(call_input_ids) = 2
    /\ draft_next_ids = call_input_ids

\* C19: with a SinkCache, the state handed to every draft call has at most
\* cache_size = start_size + recent_size entries, in every pass of the draft
\* loop of every iteration; the state handed to the target call is never
\* windowed: it is the supplied state in the first iteration of a session
\* started from one, and otherwise holds at least one entry per input token
\* and per confirmed token that has been fed.
C19_DraftWindowedTargetWhole ==
    cache_manager.kind = "sink" =>
        /\ pc = "draft" =>
              SeqLen(draft_past_key_values) <= cache_manager.cache_size
        /\ pc = "verify" =>
              IF call_past_key_values # None /\ decode_time = 0
              THEN past_key_values = call_past_key_values
              ELSE SeqLen(past_key_values) >=
                      input_seqlen + stable_len - PrefillTokens

\* A later iteration's target call: the target state is longer than
\* cache_size, the draft state is not.
C19_Witness ==
    /\ cache_manager.kind = "sink"
    /\ pc = "verify"
    /\ decode_time >= 1
    /\ SeqLen(past_key_values) > cache_manager.cache_size + 1
    /\ SeqLen(draft_past_key_values) = cache_manager.cache_size

\* The input position of an entry of a state built by ArangeState.
Position(entry) == entry[3]

\* C20: a policy constructed with non-negative sizes and applied (with the
\* gap and sink of its construction) to a state longer than cache_size
\* returns, in every buffer, entries whose input positions strictly
\* increase: no position twice, the input's order kept.
C20_StrictlyIncreasing ==
    ((Windowed("sink") \/ Windowed("lst")) /\ arg_gap = <<>> /\ arg_sink = <<>>) =>
        \A l \in 1..Len(new_past_key_values), b \in 1..2 :
            LET y == new_past_key_values[l][b] IN
            \A p \in 1..(Len(y) - 1) : Position(y[p]) < Position(y[p + 1])
====
